---------------------------- MODULE Spec2Model ----------------------------
(***************************************************************************)
(* Model of custom_nodes/loop_nodes.py: LoopStartNode and LoopEndNode, the *)
(* two class-level registries LOOP_SESSIONS and RESULTS_CACHE, and the     *)
(* re-queueing host described in LoopEndNode.execute.                      *)
(*                                                                         *)
(* Data representation                                                     *)
(*   JSON text   a record whose field form is "garbage" (json.loads raises *)
(*               JSONDecodeError), "array" (valid JSON that is no object)  *)
(*               or "object" (a JSON object with the record's fields).     *)
(*   JSON field  a pair <<kind, value>>: <<"absent", _>> for a missing     *)
(*               key, <<"str", s>>, <<"int", n>>, <<"bool", b>>, and       *)
(*               <<"list", _>> for a JSON array where a scalar is expected.*)
(*   None        the string NoneVal among body results; the record         *)
(*               NoItem among emitted items.                               *)
(***************************************************************************)
EXTENDS Integers, Sequences, FiniteSets, TLC

VARIABLES
    LOOP_SESSIONS,   \* LoopStartNode.LOOP_SESSIONS: loop_id -> session
    RESULTS_CACHE,   \* LoopEndNode.RESULTS_CACHE:  loop_id -> result session
    uuids,           \* number of loop ids uuid.uuid4() has handed out
    call,            \* the most recent execute call: arguments and outcome
    calls,           \* number of direct execute calls made so far
    host,            \* the re-queueing host's evaluation of one graph
    peer             \* the evaluation of a second graph with a loop of its own

vars == <<LOOP_SESSIONS, RESULTS_CACHE, uuids, call, calls, host, peer>>

---------------------------------------------------------------------------
(* Bounds of the model *)

\* loop ids uuid4 can hand out in one behaviour
MaxLoops == 2
\* input sequences connected to LoopStartNode
MaxInputs == 2
\* length of one input sequence
MaxLen == 2
\* combinations of a loop the host drives
MaxK == 4
\* direct (host-independent) execute calls in one behaviour
MaxCalls == 3
\* total_iterations / index values a directly delivered context may carry
MaxTotal == 2

---------------------------------------------------------------------------
(* Values *)

\* elements of input sequences
Elems == {"a", "b"}

\* Python None as an iteration_result / as an empty slot of results
NoneVal == "None"

\* loop body outputs
BodyResults == {NoneVal, "r1", "r2"}

\* the sentinel loop_id of the zero-input context
NoLoop == "none"

\* the strings uuid.uuid4() returns, in the order it returns them
UuidNames == <<"u1", "u2", "u3", "u4">>

\* self.id of the LoopStartNode instance
StartNodeId == "startnode"

JAbsent(v) == <<"absent", v>>
JStr(s) == <<"str", s>>
JInt(n) == <<"int", n>>
JBool(b) == <<"bool", b>>

\* dict.get(key, default)
Get(field, default) == IF field[1] = "absent" THEN default ELSE field

\* Python truthiness of a decoded loop_id (`not loop_id`)
Falsy(l) == l[1] = "absent" \/ (l[1] = "str" /\ l[2] = "")

\* whether a decoded loop_id can be a dict key (a JSON array cannot)
Hashable(l) == l[1] # "list"

\* list[i] of a Python list of length n: defined for -n <= i < n
PyIndexOk(i, n) == -n <= i /\ i < n

PyIndex(i, n) == IF i >= 0 THEN i + 1 ELSE n + i + 1

RemoveKey(f, k) == [x \in (DOMAIN f) \ {k} |-> f[x]]

PutKey(f, k, v) == [x \in (DOMAIN f) \cup {k} |-> IF x = k THEN v ELSE f[x]]

EmptyDict == [x \in {} |-> 0]

---------------------------------------------------------------------------
(* LoopStartNode *)

\* an input item that is no list is wrapped into a one-element list
WrapItem(item) == IF item.list THEN item.elems ELSE <<item.elems[1]>>

\* processed_input_lists
ProcessInputs(input_lists) ==
    CASE input_lists.kind = "none" -> <<>>
      [] input_lists.kind = "seq" ->
           [j \in 1..Len(input_lists.items) |-> WrapItem(input_lists.items[j])]
      [] input_lists.kind = "bare" -> << WrapItem(input_lists.items[1]) >>

\* [x + (y,) for y in pool]
AppendEach(x, pool) == [j \in 1..Len(pool) |-> Append(x, pool[j])]

RECURSIVE ExtendAllPoolOuter(_, _)
\* a product whose loops are nested the other way round (the new input varies
\* slowest): [x + (y,) for y in pool for x in result]
ExtendAllPoolOuter(result, pool) ==
    IF pool = <<>> THEN <<>>
    ELSE [j \in 1..Len(result) |-> Append(result[j], Head(pool))]
         \o ExtendAllPoolOuter(result, Tail(pool))

RECURSIVE ExtendAll(_, _)
\* [x + (y,) for x in result for y in pool]
ExtendAll(result, pool) ==
    IF result = <<>> THEN <<>>
    ELSE AppendEach(Head(result), pool) \o ExtendAll(Tail(result), pool)

RECURSIVE ProductFrom(_, _)
ProductFrom(result, pools) ==
    IF pools = <<>> THEN result
    ELSE ProductFrom(ExtendAll(result, Head(pools)), Tail(pools))

\* list(itertools.product(*pools))
Product(pools) == ProductFrom(<< <<>> >>, pools)

NoItem == [kind |-> "none", value |-> <<>>]
NoneTuple == [kind |-> "nonetuple", value |-> <<>>]
Item(t) == [kind |-> "item", value |-> t]

\* json.dumps(loop_context_out)
ContextText(loop_id, current_index, total, finished, start) ==
    [form |-> "object", loop_id |-> JStr(loop_id), current_index |-> current_index,
     total_iterations |-> JInt(total), is_finished |-> JBool(finished),
     start_node_id |-> start]

NoText == [form |-> "garbage", loop_id |-> JAbsent(""), current_index |-> JAbsent(0),
           total_iterations |-> JAbsent(0), is_finished |-> JAbsent(FALSE),
           start_node_id |-> ""]

StartOutcome(exc, branch, sessions, n, item, ctx) ==
    [raised |-> exc, branch |-> branch, sessions |-> sessions, uuids |-> n,
     item |-> item, ctx |-> ctx]

StartRaise(exc, sessions, n) == StartOutcome(exc, "", sessions, n, NoItem, NoText)

\* a serving step that never reports the end: past the last combination it
\* emits no item but still says is_finished = false
StartServeNeverFinished(branch, sessions, n, loop_id, target_index) ==
    LET session_data == sessions[loop_id]
        combinations == session_data.combinations
        len == Len(combinations)
    IN  IF len = 0
        THEN StartOutcome("", branch, sessions, n, NoneTuple,
                          ContextText(loop_id, target_index, 0, TRUE,
                                      session_data.start_node_id))
        ELSE IF target_index[1] # "int"
        THEN StartRaise("TypeError", sessions, n)
        ELSE IF target_index[2] < len
        THEN IF ~PyIndexOk(target_index[2], len)
             THEN StartRaise("IndexError", sessions, n)
             ELSE StartOutcome("", branch,
                               [sessions EXCEPT ![loop_id].current_index = target_index[2]],
                               n, Item(combinations[PyIndex(target_index[2], len)]),
                               ContextText(loop_id, target_index, len, FALSE,
                                           session_data.start_node_id))
        ELSE StartOutcome("", branch, sessions, n, NoneTuple,
                          ContextText(loop_id, target_index, len, FALSE,
                                      session_data.start_node_id))

\* a serving step that deletes the session once the index is past the end
StartServeCleanup(branch, sessions, n, loop_id, target_index) ==
    LET session_data == sessions[loop_id]
        combinations == session_data.combinations
        len == Len(combinations)
    IN  IF len = 0
        THEN StartOutcome("", branch, sessions, n, NoneTuple,
                          ContextText(loop_id, target_index, 0, TRUE,
                                      session_data.start_node_id))
        ELSE IF target_index[1] # "int"
        THEN StartRaise("TypeError", sessions, n)
        ELSE IF target_index[2] < len
        THEN IF ~PyIndexOk(target_index[2], len)
             THEN StartRaise("IndexError", sessions, n)
             ELSE StartOutcome("", branch,
                               [sessions EXCEPT ![loop_id].current_index = target_index[2]],
                               n, Item(combinations[PyIndex(target_index[2], len)]),
                               ContextText(loop_id, target_index, len, FALSE,
                                           session_data.start_node_id))
        ELSE StartOutcome("", branch, RemoveKey(sessions, loop_id), n, NoneTuple,
                          ContextText(loop_id, target_index, len, TRUE,
                                      session_data.start_node_id))

\* the lines after the session is known: pick the item, build the context
StartServe(branch, sessions, n, loop_id, target_index) ==
    LET session_data == sessions[loop_id]
        combinations == session_data.combinations
        len == Len(combinations)
    IN  IF len = 0
        THEN StartOutcome("", branch, sessions, n, NoneTuple,
                          ContextText(loop_id, target_index, 0, TRUE,
                                      session_data.start_node_id))
        ELSE IF target_index[1] # "int"
        THEN StartRaise("TypeError", sessions, n)
        ELSE IF target_index[2] < len
        THEN IF ~PyIndexOk(target_index[2], len)
             THEN StartRaise("IndexError", sessions, n)
             ELSE StartOutcome("", branch,
                               [sessions EXCEPT ![loop_id].current_index = target_index[2]],
                               n, Item(combinations[PyIndex(target_index[2], len)]),
                               ContextText(loop_id, target_index, len, FALSE,
                                           session_data.start_node_id))
        ELSE StartOutcome("", branch, sessions, n, NoneTuple,
                          ContextText(loop_id, target_index, len, TRUE,
                                      session_data.start_node_id))

\* whether control_params.get("loop_id") names no usable session
StartsNewLoop(sessions, loop_id) ==
    Falsy(loop_id) \/ loop_id[2] \notin DOMAIN sessions

\* a new loop that is started even when no input is connected (no short-circuit)
StartNewAlways(sessions, n, self, processed) ==
    LET new_id == UuidNames[n + 1]
        created == PutKey(sessions, new_id,
                          [combinations |-> Product(processed), current_index |-> 0,
                           start_node_id |-> self])
    IN  StartServe("new", created, n + 1, new_id, JInt(0))

\* a new-loop branch that does not reset the index: the new loop starts at 1
StartNewFromOne(sessions, n, self, processed) ==
    IF processed = <<>>
    THEN StartOutcome("", "noinputs", sessions, n, NoItem,
                      ContextText(NoLoop, JInt(0), 0, TRUE, self))
    ELSE LET new_id == UuidNames[n + 1]
             created == PutKey(sessions, new_id,
                               [combinations |-> Product(processed),
                                current_index |-> 0,
                                start_node_id |-> self])
         IN  StartServe("new", created, n + 1, new_id, JInt(1))

\* the new-loop branch: no inputs short-circuits; otherwise a session is created
\* under a fresh uuid and index 0 is served
StartNew(sessions, n, self, processed) ==
    IF processed = <<>>
    THEN StartOutcome("", "noinputs", sessions, n, NoItem,
                      ContextText(NoLoop, JInt(0), 0, TRUE, self))
    ELSE LET new_id == UuidNames[n + 1]
             created == PutKey(sessions, new_id,
                               [combinations |-> Product(processed),
                                current_index |-> 0,
                                start_node_id |-> self])
         IN  StartServe("new", created, n + 1, new_id, JInt(0))

\* a source that computes the combinations again from the inputs of every call
StartExecuteRecompute(sessions, n, self, input_lists, iteration_control) ==
    IF iteration_control.form = "array"
    THEN StartRaise("AttributeError", sessions, n)
    ELSE
    LET parsed == iteration_control.form = "object"
        loop_id == IF parsed THEN iteration_control.loop_id ELSE JAbsent("")
        target_index == IF parsed THEN Get(iteration_control.target_index, JInt(0))
                        ELSE JInt(0)
        processed == ProcessInputs(input_lists)
    IN  IF ~Falsy(loop_id) /\ ~Hashable(loop_id)
        THEN StartRaise("TypeError", sessions, n)
        ELSE IF StartsNewLoop(sessions, loop_id)
        THEN StartNew(sessions, n, self, processed)
        ELSE StartServe("reuse",
                        [sessions EXCEPT ![loop_id[2]].combinations = Product(processed)],
                        n, loop_id[2], target_index)

\* LoopStartNode.execute(input_lists, iteration_control) on registry `sessions`
\* with n loop ids already handed out
StartExecute(sessions, n, self, input_lists, iteration_control) ==
    IF iteration_control.form = "array"
    THEN StartRaise("AttributeError", sessions, n)
    ELSE
    LET parsed == iteration_control.form = "object"
        loop_id == IF parsed THEN iteration_control.loop_id ELSE JAbsent("")
        target_index == IF parsed THEN Get(iteration_control.target_index, JInt(0))
                        ELSE JInt(0)
        processed == ProcessInputs(input_lists)
    IN  IF ~Falsy(loop_id) /\ ~Hashable(loop_id)
        THEN StartRaise("TypeError", sessions, n)
        ELSE IF StartsNewLoop(sessions, loop_id)
        THEN StartNew(sessions, n, self, processed)
        ELSE StartServe("reuse", sessions, n, loop_id[2], target_index)

---------------------------------------------------------------------------
(* LoopEndNode *)

\* json.dumps of the control record the sink asks the host to re-queue
ControlText(loop_id, target_index) ==
    [form |-> "object", loop_id |-> loop_id, target_index |-> target_index]

NoControl == [form |-> "garbage", loop_id |-> JAbsent(""), target_index |-> JAbsent(0)]

\* the default iteration_control, "{}"
EmptyControl == [form |-> "object", loop_id |-> JAbsent(""), target_index |-> JAbsent(0)]

\* a fresh entry of RESULTS_CACHE
NewResults(total_iterations) ==
    IF total_iterations > 0
    THEN [results |-> [j \in 1..total_iterations |-> NoneVal], received_count |-> 0,
          total_expected |-> total_iterations]
    ELSE [results |-> <<>>, received_count |-> 0, total_expected |-> 0]

\* a collection step that counts the slot and forgets to store the result
CollectCountOnly(session_results, current_index, iteration_result) ==
    LET pos == PyIndex(current_index, Len(session_results.results))
    IN  [session_results EXCEPT
            !.received_count = IF session_results.results[pos] = NoneVal
                               THEN @ + 1 ELSE @]

\* the collection step: count the slot if it holds None, then store the result
Collect(session_results, current_index, iteration_result) ==
    LET pos == PyIndex(current_index, Len(session_results.results))
    IN  [session_results EXCEPT
            !.received_count = IF session_results.results[pos] = NoneVal
                               THEN @ + 1 ELSE @,
            !.results[pos] = iteration_result]

EndOutcome(exc, branch, cache, sessions, ret, request) ==
    [raised |-> exc, branch |-> branch, cache |-> cache, sessions |-> sessions,
     ret |-> ret, request |-> request]

\* a decision that completes as soon as every result is in, finished or not
EndDecideEager(cache, sessions, loop_id, current_index, finished) ==
    LET session_results == cache[loop_id]
        all_results_collected ==
            session_results.received_count = session_results.total_expected
    IN  IF all_results_collected
        THEN EndOutcome("", "complete", RemoveKey(cache, loop_id),
                        RemoveKey(sessions, loop_id), session_results.results, NoControl)
        ELSE IF ~finished
        THEN EndOutcome("", "continue", cache, sessions, <<NoneVal>>,
                        ControlText(JStr(loop_id), JInt(current_index[2] + 1)))
        ELSE EndOutcome("", "aborted", RemoveKey(cache, loop_id),
                        RemoveKey(sessions, loop_id), session_results.results, NoControl)

\* a decision whose abort branch releases the results but not the LoopSession
EndDecideLeakOnAbort(cache, sessions, loop_id, current_index, finished) ==
    LET session_results == cache[loop_id]
        all_results_collected ==
            session_results.received_count = session_results.total_expected
    IN  IF finished /\ all_results_collected
        THEN EndOutcome("", "complete", RemoveKey(cache, loop_id),
                        RemoveKey(sessions, loop_id), session_results.results, NoControl)
        ELSE IF ~finished
        THEN EndOutcome("", "continue", cache, sessions, <<NoneVal>>,
                        ControlText(JStr(loop_id), JInt(current_index[2] + 1)))
        ELSE EndOutcome("", "aborted", RemoveKey(cache, loop_id), sessions,
                        session_results.results, NoControl)

\* a decision whose terminal branches empty both registries instead of deleting
\* the entries of their own loop id
EndDecideClearAll(cache, sessions, loop_id, current_index, finished) ==
    LET session_results == cache[loop_id]
        all_results_collected ==
            session_results.received_count = session_results.total_expected
    IN  IF finished /\ all_results_collected
        THEN EndOutcome("", "complete", EmptyDict, EmptyDict, session_results.results,
                        NoControl)
        ELSE IF ~finished
        THEN EndOutcome("", "continue", cache, sessions, <<NoneVal>>,
                        ControlText(JStr(loop_id), JInt(current_index[2] + 1)))
        ELSE EndOutcome("", "aborted", EmptyDict, EmptyDict, session_results.results,
                        NoControl)

\* the three-way decision at the end of LoopEndNode.execute
EndDecide(cache, sessions, loop_id, current_index, finished) ==
    LET session_results == cache[loop_id]
        all_results_collected ==
            session_results.received_count = session_results.total_expected
    IN  IF finished /\ all_results_collected
        THEN EndOutcome("", "complete", RemoveKey(cache, loop_id),
                        RemoveKey(sessions, loop_id), session_results.results, NoControl)
        ELSE IF ~finished
        THEN EndOutcome("", "continue", cache, sessions, <<NoneVal>>,
                        ControlText(JStr(loop_id), JInt(current_index[2] + 1)))
        ELSE EndOutcome("", "aborted", RemoveKey(cache, loop_id),
                        RemoveKey(sessions, loop_id), session_results.results, NoControl)

\* LoopEndNode.execute(iteration_result, loop_context_in) on the two registries
EndExecute(cache, sessions, iteration_result, loop_context_in) ==
    IF loop_context_in.form = "garbage"
    THEN EndOutcome("", "parse_error", cache, sessions, <<>>, NoControl)
    ELSE IF loop_context_in.form = "array"
    THEN EndOutcome("AttributeError", "", cache, sessions, <<>>, NoControl)
    ELSE
    LET loop_id == loop_context_in.loop_id
        current_index == Get(loop_context_in.current_index, JInt(-1))
        total_iterations == Get(loop_context_in.total_iterations, JInt(0))
        finished == Get(loop_context_in.is_finished, JBool(TRUE))[2]
    IN  IF Falsy(loop_id) \/ current_index = JInt(-1)
        THEN EndOutcome("", "invalid", cache, sessions, <<>>, NoControl)
        ELSE IF ~Hashable(loop_id)
        THEN EndOutcome("TypeError", "", cache, sessions, <<>>, NoControl)
        ELSE IF loop_id[2] \notin DOMAIN cache /\ total_iterations[1] # "int"
        THEN EndOutcome("TypeError", "", cache, sessions, <<>>, NoControl)
        ELSE
        LET id == loop_id[2]
            ensured == IF id \in DOMAIN cache THEN cache
                       ELSE PutKey(cache, id, NewResults(total_iterations[2]))
            session_results == ensured[id]
        IN  IF ~finished /\ current_index[1] # "int"
            THEN EndOutcome("TypeError", "", ensured, sessions, <<>>, NoControl)
            ELSE IF ~finished /\ current_index[2] < session_results.total_expected
            THEN IF ~PyIndexOk(current_index[2], Len(session_results.results))
                 THEN EndOutcome("IndexError", "", ensured, sessions, <<>>, NoControl)
                 ELSE EndDecide([ensured EXCEPT ![id] =
                                    Collect(session_results, current_index[2],
                                            iteration_result)],
                                sessions, id, current_index, finished)
            ELSE EndDecide(ensured, sessions, id, current_index, finished)

---------------------------------------------------------------------------
(* Arguments the calls are made with *)

SeqsUpTo(S, n) == UNION {[1..m -> S] : m \in 0..n}

BareItems == {[list |-> FALSE, elems |-> <<e>>] : e \in Elems}

ListItems == {[list |-> TRUE, elems |-> es] : es \in SeqsUpTo(Elems, MaxLen)}

\* every value of input_lists: None, one bare value, or up to MaxInputs items
AllInputs ==
    {[kind |-> "none", items |-> <<>>]}
    \cup {[kind |-> "bare", items |-> <<it>>] : it \in BareItems}
    \cup {[kind |-> "seq", items |-> its] : its \in SeqsUpTo(BareItems \cup ListItems, MaxInputs)}

\* the inputs of the direct calls: none, an empty list, one list, a list and a bare value
DirectInputs ==
    {[kind |-> "seq", items |-> <<>>],
     [kind |-> "seq", items |-> <<[list |-> TRUE, elems |-> <<>>]>>],
     [kind |-> "seq", items |-> <<[list |-> TRUE, elems |-> <<"a", "b">>]>>],
     [kind |-> "seq", items |-> <<[list |-> TRUE, elems |-> <<"a", "b">>],
                                  [list |-> FALSE, elems |-> <<"b">>]>>]}

\* loop ids that exist so far, as a caller can know them
KnownIds == {NoLoop} \cup {UuidNames[j] : j \in 1..uuids}

\* a loop_id field of a context: missing, or the string of a known loop
LoopIdFields == {JAbsent("")} \cup {JStr(id) : id \in KnownIds}

\* an index field: missing, a JSON string, or an integer from -2 up
IndexFields == {JAbsent(0), <<"str", 0>>} \cup {JInt(j) : j \in (-2..MaxTotal) \ {-1}}

TotalFields == {JInt(j) : j \in 0..MaxTotal}

FinishedFields == {JBool(TRUE), JBool(FALSE)}

\* every iteration_control text of the direct calls
ControlTexts ==
    {NoControl, [NoControl EXCEPT !.form = "array"]}
    \cup {ControlText(l, t) : l \in LoopIdFields \cup {<<"list", "">>}, t \in IndexFields}

\* every loop_context_in text of the direct calls
ContextTexts ==
    {NoText, [NoText EXCEPT !.form = "array"]}
    \cup {[form |-> "object", loop_id |-> l, current_index |-> c, total_iterations |-> t,
           is_finished |-> f, start_node_id |-> StartNodeId] :
            l \in LoopIdFields, c \in IndexFields, t \in TotalFields, f \in FinishedFields}

---------------------------------------------------------------------------
(* State machine *)

\* what is kept of the most recent call: which node ran, who called it, how it
\* ended, the loop id it was made for ("" when the text carried no string) and
\* whether the context a source call emitted said is_finished
NoCall ==
    [node |-> "none", by |-> "", raised |-> "", branch |-> "", id |-> "",
     finished |-> FALSE]

TextId(field) == IF field[1] = "str" THEN field[2] ELSE ""

StartCallRecord(by, o) ==
    [node |-> "start", by |-> by, raised |-> o.raised, branch |-> o.branch,
     id |-> TextId(o.ctx.loop_id), finished |-> o.ctx.is_finished = JBool(TRUE)]

EndCallRecord(by, ctx, o) ==
    [node |-> "end", by |-> by, raised |-> o.raised, branch |-> o.branch,
     id |-> TextId(ctx.loop_id), finished |-> FALSE]

IdleHost ==
    [pc |-> "idle", inputs |-> [kind |-> "none", items |-> <<>>], control |-> EmptyControl,
     item |-> NoItem, ctx |-> NoText, result |-> NoneVal, outs |-> <<>>, items |-> <<>>,
     requests |-> <<>>, final |-> <<>>, branch |-> ""]

Init ==
    /\ LOOP_SESSIONS = EmptyDict
    /\ RESULTS_CACHE = EmptyDict
    /\ uuids = 0
    /\ call = NoCall
    /\ calls = 0
    /\ host = IdleHost
    /\ peer = IdleHost

\* the registries and the call record after LoopStartNode.execute ended as o
StartEffect(by, o) ==
    /\ o.uuids <= MaxLoops
    /\ LOOP_SESSIONS' = o.sessions
    /\ uuids' = o.uuids
    /\ call' = StartCallRecord(by, o)
    /\ UNCHANGED RESULTS_CACHE

\* the registries and the call record after LoopEndNode.execute ended as o
EndEffect(by, result, ctx, o) ==
    /\ RESULTS_CACHE' = o.cache
    /\ LOOP_SESSIONS' = o.sessions
    /\ call' = EndCallRecord(by, ctx, o)
    /\ UNCHANGED uuids

\* one call of LoopStartNode.execute with the given arguments
StartCall(by, input_lists, control) ==
    \E o \in {StartExecute(LOOP_SESSIONS, uuids, StartNodeId, input_lists, control)} :
        StartEffect(by, o)

\* one call of LoopEndNode.execute with the given arguments
EndCall(by, result, ctx) ==
    \E o \in {EndExecute(RESULTS_CACHE, LOOP_SESSIONS, result, ctx)} :
        EndEffect(by, result, ctx, o)

DirectStart ==
    /\ calls < MaxCalls
    /\ \E input_lists \in DirectInputs, control \in ControlTexts :
          StartCall("direct", input_lists, control)
    /\ calls' = calls + 1
    /\ UNCHANGED <<host, peer>>

DirectEnd ==
    /\ calls < MaxCalls
    /\ \E result \in BodyResults, ctx \in ContextTexts : EndCall("direct", result, ctx)
    /\ calls' = calls + 1
    /\ UNCHANGED <<host, peer>>

Next == DirectStart \/ DirectEnd

Spec == Init /\ [][Next]_vars

---------------------------------------------------------------------------
(* The host: it evaluates the graph (source, loop body, sink) and, when the    *)
(* sink asks for the next iteration, evaluates it again with the requested     *)
(* control record as the source's iteration_control.                           *)

\* the inputs of a loop the host drives: at most MaxK combinations
HostInputs == {i \in AllInputs : Len(Product(ProcessInputs(i))) <= MaxK}

InitHost ==
    /\ LOOP_SESSIONS = EmptyDict
    /\ RESULTS_CACHE = EmptyDict
    /\ uuids = 0
    /\ call = NoCall
    /\ calls = 0
    /\ \E i \in HostInputs : host = [IdleHost EXCEPT !.pc = "source", !.inputs = i]
    /\ peer = IdleHost

\* the graph evaluation h reaches LoopStartNode, which runs with the current
\* iteration_control; h2 is the evaluation afterwards
EvalSource(by, h, h2) ==
    /\ h.pc = "source"
    /\ \E o \in {StartExecute(LOOP_SESSIONS, uuids, StartNodeId, h.inputs, h.control)} :
          /\ StartEffect(by, o)
          /\ h2 = [h EXCEPT !.pc = IF o.raised # "" THEN "failed" ELSE "body",
                            !.item = o.item, !.ctx = o.ctx,
                            !.items = Append(@, o.item)]

\* the loop body runs on the emitted item and produces some output
EvalBody(h, h2) ==
    /\ h.pc = "body"
    /\ \E r \in BodyResults :
          h2 = [h EXCEPT !.pc = "sink", !.result = r,
                         !.outs = Append(@, [index |-> h.ctx.current_index[2],
                                             finished |-> h.ctx.is_finished[2],
                                             out |-> r])]

\* the graph evaluation h reaches LoopEndNode; the graph is re-queued with the
\* control record the sink asks for, if it asks for one
EvalSink(by, h, h2) ==
    /\ h.pc = "sink"
    /\ \E o \in {EndExecute(RESULTS_CACHE, LOOP_SESSIONS, h.result, h.ctx)} :
          /\ EndEffect(by, h.result, h.ctx, o)
          /\ h2 = IF o.raised # "" THEN [h EXCEPT !.pc = "failed"]
                  ELSE IF o.branch = "continue"
                  THEN [h EXCEPT !.pc = "source", !.control = o.request,
                                 !.requests =
                                     Append(@, [at |-> h.ctx.current_index[2],
                                                target |-> o.request.target_index[2]])]
                  ELSE [h EXCEPT !.pc = "done", !.final = o.ret, !.branch = o.branch]

\* the host evaluates LoopStartNode with the current iteration_control
HostSource == EvalSource("host", host, host') /\ UNCHANGED <<calls, peer>>

\* the loop body of the host's graph runs
HostBody ==
    /\ EvalBody(host, host')
    /\ UNCHANGED <<LOOP_SESSIONS, RESULTS_CACHE, uuids, call, calls, peer>>

\* the host evaluates LoopEndNode and re-queues the graph if it asks for it
HostSink == EvalSink("host", host, host') /\ UNCHANGED <<calls, peer>>

NextHost == HostSource \/ HostBody \/ HostSink

\* one loop driven from start to end by the serial host, and nothing else
HostSpec == InitHost /\ [][NextHost]_vars

---------------------------------------------------------------------------
(* Properties of a loop driven by the serial host (HostSpec) *)

\* the normalised input sequences S1..Sn of the host's loop
HostPools == ProcessInputs(host.inputs)

RECURSIVE SizeFrom(_, _)
\* the number of tuples the sequences j, j+1, ... of pools span
SizeFrom(pools, j) ==
    IF j > Len(pools) THEN 1 ELSE Len(pools[j]) * SizeFrom(pools, j + 1)

\* the number k of combinations of the host's loop
HostK == IF HostPools = <<>> THEN 0 ELSE SizeFrom(HostPools, 1)

\* the i-th tuple (from 0) of the Cartesian product in lexicographic order: the
\* digits of i in the mixed radix of the sequence lengths, last digit fastest
LexTuple(pools, i) ==
    [j \in 1..Len(pools) |->
        pools[j][((i \div SizeFrom(pools, j + 1)) % Len(pools[j])) + 1]]

\* the evaluations of the loop body that were given a real item
BodyRuns == {e \in 1..Len(host.outs) : ~host.outs[e].finished}

\* C1: when the host has driven a loop of k >= 1 combinations to its end, the
\* collection the sink returned has length k and its element i is the body output
\* produced on the evaluation with target_index = i, for every i in 0..k-1.
C1_FinalResultsInOrder ==
    (host.pc = "done" /\ HostK >= 1) =>
        /\ host.branch = "complete"
        /\ Len(host.final) = HostK
        /\ \A i \in 0..(HostK - 1) : \E e \in BodyRuns : host.outs[e].index = i
        /\ \A e \in BodyRuns : host.final[host.outs[e].index + 1] = host.outs[e].out

\* a finished loop of at least three combinations whose body outputs differ
C1_Witness ==
    /\ host.pc = "done"
    /\ HostK >= 3
    /\ host.final[1] = "r1" /\ host.final[2] = "r2" /\ host.final[3] = NoneVal

\* C2: when the host has driven a loop of k combinations to its end, the sink has
\* asked for a continuation exactly k times: once on the evaluation of each
\* target_index 0..k-1 (asking for the next index), never on the evaluation of k.
C2_ExactlyKRequests ==
    host.pc = "done" =>
        /\ Len(host.requests) = HostK
        /\ \A j \in 1..Len(host.requests) :
              host.requests[j] = [at |-> j - 1, target |-> j]
        /\ call.node = "end" /\ call.branch = "complete"
        /\ host.ctx.current_index = JInt(HostK)

\* a finished loop of MaxK combinations: MaxK requests were made
C2_Witness == host.pc = "done" /\ HostK = MaxK /\ Len(host.requests) = MaxK

\* C3: the session LoopStartNode creates holds the Cartesian product of the input
\* sequences in lexicographic order (first input slowest, last input fastest), and
\* the item emitted for an in-range target_index i is the i-th tuple of it.
C3_LexicographicProduct ==
    /\ \A id \in DOMAIN LOOP_SESSIONS :
          LET combinations == LOOP_SESSIONS[id].combinations
          IN  /\ Len(combinations) = HostK
              /\ \A i \in 0..(HostK - 1) : combinations[i + 1] = LexTuple(HostPools, i)
    /\ (host.pc = "body" /\ ~host.ctx.is_finished[2]) =>
          /\ host.ctx.current_index[2] \in 0..(HostK - 1)
          /\ host.item = Item(LexTuple(HostPools, host.ctx.current_index[2]))

\* the source has just served index 1 of the product of two two-element lists
C3_Witness ==
    /\ host.pc = "body"
    /\ HostPools = << <<"a", "b">>, <<"b", "a">> >>
    /\ host.ctx.current_index = JInt(1)
    /\ host.item = Item(<<"a", "a">>)

\* C6: with zero input sequences the source emits a finished context with
\* total_iterations = 0 and creates no LoopSession; the sink, given that context,
\* returns an empty collection, asks for no continuation and leaves no
\* ResultSession behind.
C6_ZeroInputs ==
    HostPools = <<>> =>
        /\ LOOP_SESSIONS = EmptyDict /\ uuids = 0
        /\ host.pc \in {"source", "body", "sink", "done"}
        /\ host.pc \in {"body", "sink", "done"} =>
              /\ host.ctx.is_finished = JBool(TRUE)
              /\ host.ctx.total_iterations = JInt(0)
              /\ host.item = NoItem
        /\ host.pc \in {"source", "body", "sink"} => RESULTS_CACHE = EmptyDict
        /\ host.pc = "done" =>
              /\ host.final = <<>>
              /\ host.requests = <<>>
              /\ RESULTS_CACHE = EmptyDict

\* the sink has returned for a graph whose source had no inputs connected
C6_Witness ==
    /\ host.pc = "done"
    /\ host.inputs = [kind |-> "seq", items |-> <<>>]
    /\ call.node = "end" /\ call.id = NoLoop

---------------------------------------------------------------------------
(* Properties of arbitrary sequences of calls (Spec) *)

\* the session of loop id `id`, as it is before and after a step
Slots(cache, id) == cache[id].results

\* the not-finished context of index i of the loop whose ResultSession is
\* registered under id
Delivery(id, i) ==
    ContextText(id, JInt(i), RESULTS_CACHE[id].total_expected, FALSE, StartNodeId)

\* C4: idempotence of delivery: for every ResultSession, every in-bounds index i
\* and every iteration_result, delivering the same not-finished context with the
\* same result a second time leaves received_count and every slot as they were
\* after the first delivery.
C4_IdempotentDelivery ==
    \A id \in DOMAIN RESULTS_CACHE :
        \A i \in 0..(RESULTS_CACHE[id].total_expected - 1), result \in BodyResults :
            LET first == EndExecute(RESULTS_CACHE, LOOP_SESSIONS, result, Delivery(id, i))
                second == EndExecute(first.cache, first.sessions, result, Delivery(id, i))
            IN  second.cache[id] = first.cache[id]

\* C5: after a sink call that completes or aborts a loop, the loop id is in
\* neither registry.
C5_ReleasedOnTerminal ==
    (call.node = "end" /\ call.branch \in {"complete", "aborted"}) =>
        /\ call.id \notin DOMAIN LOOP_SESSIONS
        /\ call.id \notin DOMAIN RESULTS_CACHE

\* a loop the source created was aborted by the sink: one other loop remains
C5_Witness ==
    /\ call.node = "end" /\ call.branch = "aborted"
    /\ call.id = UuidNames[1]
    /\ uuids = 2
    /\ DOMAIN LOOP_SESSIONS = {UuidNames[2]}

\* a control text that does not decode to a record with a string loop_id and an
\* integer target_index
MalformedControl(control) ==
    \/ control.form # "object"
    \/ control.loop_id[1] = "list"
    \/ control.target_index[1] = "str"

\* C7: LoopStartNode.execute raises for no control text, and on a malformed one
\* it starts a new loop that serves index 0.
C7_NeverRaises ==
    \A input_lists \in DirectInputs, control \in ControlTexts :
        LET o == StartExecute(LOOP_SESSIONS, uuids, StartNodeId, input_lists, control)
        IN  /\ o.raised = ""
            /\ MalformedControl(control) =>
                  /\ o.branch \in {"new", "noinputs"}
                  /\ o.ctx.current_index = JInt(0)

\* a context text that cannot be parsed into a context, or lacks loop_id or
\* current_index
InvalidContext(ctx) ==
    \/ ctx.form # "object"
    \/ ctx.loop_id[1] = "absent"
    \/ ctx.current_index[1] = "absent"

\* C8: a sink call with an unparsable context, or one without loop_id or
\* current_index, returns an empty collection without raising, asks for no
\* continuation and changes neither registry.
C8_InvalidContextIgnored ==
    \A result \in BodyResults, ctx \in ContextTexts :
        InvalidContext(ctx) =>
            LET o == EndExecute(RESULTS_CACHE, LOOP_SESSIONS, result, ctx)
            IN  /\ o.raised = ""
                /\ o.ret = <<>>
                /\ o.request = NoControl
                /\ o.cache = RESULTS_CACHE
                /\ o.sessions = LOOP_SESSIONS

\* C9: once a slot of a ResultSession holds a result, no later call changes it
\* while the session lives.
C9_WriteOnce ==
    [][\A id \in (DOMAIN RESULTS_CACHE) \cap (DOMAIN RESULTS_CACHE') :
          \A j \in 1..Len(Slots(RESULTS_CACHE, id)) :
              Slots(RESULTS_CACHE, id)[j] # NoneVal =>
                  Slots(RESULTS_CACHE', id)[j] = Slots(RESULTS_CACHE, id)[j]]_vars

\* the number of slots of a ResultSession that hold a result
FilledSlots(session_results) ==
    Cardinality({j \in 1..Len(session_results.results) :
                    session_results.results[j] # NoneVal})

\* C10: in every ResultSession received_count is the number of non-empty slots,
\* and so at most total_expected.
C10_CountMatchesSlots ==
    \A id \in DOMAIN RESULTS_CACHE :
        /\ RESULTS_CACHE[id].received_count = FilledSlots(RESULTS_CACHE[id])
        /\ RESULTS_CACHE[id].received_count <= RESULTS_CACHE[id].total_expected

\* the context texts a caller can deliver for loop id `id`
ContextsFor(id) == {ctx \in ContextTexts : ctx.loop_id = JStr(id)}

\* C11: the terminal transition of a loop is single-shot: once a sink call has
\* completed or aborted a loop, no later sink call carrying a context for that
\* loop id registers a ResultSession for it again, and none ends complete or
\* aborted (releases and returns a final output) a second time.
C11_SingleShotRelease ==
    (call.node = "end" /\ call.branch \in {"complete", "aborted"} /\ call.id # NoLoop) =>
        \A result \in BodyResults, ctx \in ContextsFor(call.id) :
            \E o \in {EndExecute(RESULTS_CACHE, LOOP_SESSIONS, result, ctx)} :
                /\ call.id \notin DOMAIN o.cache
                /\ o.branch \notin {"complete", "aborted"}

\* a context text that passes the sink's validation and carries an index: a JSON
\* object with a loop_id string and a current_index that counts from 0
ValidContext(ctx) ==
    /\ ctx.form = "object"
    /\ ctx.loop_id[1] = "str" /\ ctx.loop_id[2] # ""
    /\ ctx.current_index[1] = "int" /\ ctx.current_index[2] >= 0
    /\ ctx.total_iterations[1] = "int"

\* C12: every sink call whose valid context has is_finished = false asks for the
\* continuation with target_index = current_index + 1, returns only the placeholder
\* and deletes neither session, also when it fills the last empty slot (stated
\* for every call the call budget still allows).
C12_ContinueWhileNotFinished ==
    calls < MaxCalls =>
    \A result \in BodyResults, ctx \in ContextTexts :
        (ValidContext(ctx) /\ ctx.is_finished = JBool(FALSE)) =>
            \E o \in {EndExecute(RESULTS_CACHE, LOOP_SESSIONS, result, ctx)} :
                /\ o.raised = "" /\ o.branch = "continue"
                /\ o.request = ControlText(ctx.loop_id, JInt(ctx.current_index[2] + 1))
                /\ o.ret = <<NoneVal>>
                /\ DOMAIN o.cache = (DOMAIN RESULTS_CACHE) \cup {ctx.loop_id[2]}
                /\ o.sessions = LOOP_SESSIONS

\* a not-finished sink call has just filled the last empty slot of a loop the
\* source created: it asked for the continuation and both sessions are still there
C12_Witness ==
    /\ call.node = "end" /\ call.branch = "continue"
    /\ call.id \in DOMAIN LOOP_SESSIONS
    /\ call.id \in DOMAIN RESULTS_CACHE
    /\ RESULTS_CACHE[call.id].total_expected = 2
    /\ RESULTS_CACHE[call.id].received_count = 2
    /\ \A j \in 1..2 : RESULTS_CACHE[call.id].results[j] # NoneVal

\* the results buffer a sink call for ctx works on: the registered one, or the
\* one the call creates
BufferFor(cache, ctx) ==
    IF ctx.loop_id[2] \in DOMAIN cache THEN cache[ctx.loop_id[2]].results
    ELSE NewResults(ctx.total_iterations[2]).results

\* C13: a sink call whose valid context has is_finished = true completes the loop
\* exactly when every slot of the results buffer holds a result, aborts it exactly
\* when some slot is still empty, and when it aborts it returns the buffer as it is.
C13_CompleteIffAllFilled ==
    calls < MaxCalls =>
    \A result \in BodyResults, ctx \in ContextTexts :
        (ValidContext(ctx) /\ ctx.is_finished = JBool(TRUE)) =>
            \E o \in {EndExecute(RESULTS_CACHE, LOOP_SESSIONS, result, ctx)},
               buffer \in {BufferFor(RESULTS_CACHE, ctx)} :
                LET all_filled == \A j \in 1..Len(buffer) : buffer[j] # NoneVal
                IN  /\ o.branch = "complete" <=> all_filled
                    /\ o.branch = "aborted" <=> ~all_filled
                    /\ o.branch = "aborted" => o.ret = buffer

\* C14: whenever a source call registers a new LoopSession, whatever loop_id and
\* target_index its control text asked for, the session is registered under the
\* next fresh loop id and under no supplied one, the emitted context carries that
\* id and current_index = 0, and the emitted item is the first combination (when
\* there is one).
C14_NewLoopStartsAtZero ==
    calls < MaxCalls =>
    \A input_lists \in DirectInputs, control \in ControlTexts :
        \E o \in {StartExecute(LOOP_SESSIONS, uuids, StartNodeId, input_lists, control)} :
            DOMAIN o.sessions # DOMAIN LOOP_SESSIONS =>
                LET new_id == UuidNames[uuids + 1]
                    combinations == o.sessions[new_id].combinations
                IN  /\ o.raised = ""
                    /\ new_id \notin KnownIds
                    /\ DOMAIN o.sessions = (DOMAIN LOOP_SESSIONS) \cup {new_id}
                    /\ \A id \in DOMAIN LOOP_SESSIONS : o.sessions[id] = LOOP_SESSIONS[id]
                    /\ o.ctx.loop_id = JStr(new_id)
                    /\ o.ctx.current_index = JInt(0)
                    /\ o.sessions[new_id].current_index = 0
                    /\ combinations = Product(ProcessInputs(input_lists))
                    /\ combinations # <<>> => o.item = Item(combinations[1])

\* the source was handed the id of a loop that is gone and has started a second
\* loop under a new id
C14_Witness ==
    /\ call.node = "start" /\ call.branch = "new"
    /\ uuids = 2 /\ call.id = UuidNames[2]
    /\ UuidNames[1] \notin DOMAIN LOOP_SESSIONS
    /\ Len(LOOP_SESSIONS[call.id].combinations) = 2

\* C15: every context a source call emits has current_index < total_iterations
\* if it says is_finished = false and total_iterations > 0, and says
\* is_finished = true if total_iterations = 0.
C15_ContextInvariant ==
    calls < MaxCalls =>
    \A input_lists \in DirectInputs, control \in ControlTexts :
        \E o \in {StartExecute(LOOP_SESSIONS, uuids, StartNodeId, input_lists, control)} :
            o.raised = "" =>
                /\ o.ctx.form = "object"
                /\ (o.ctx.is_finished = JBool(FALSE) /\ o.ctx.total_iterations[2] > 0) =>
                      /\ o.ctx.current_index[1] = "int"
                      /\ o.ctx.current_index[2] < o.ctx.total_iterations[2]
                /\ o.ctx.total_iterations[2] = 0 => o.ctx.is_finished = JBool(TRUE)

\* the source has just served the last combination of an existing loop of two:
\* the context it emitted says index 1 of 2, not finished
C15_Witness ==
    /\ call.node = "start" /\ call.branch = "reuse" /\ ~call.finished
    /\ call.id \in DOMAIN LOOP_SESSIONS
    /\ Len(LOOP_SESSIONS[call.id].combinations) = 2
    /\ LOOP_SESSIONS[call.id].current_index = 1

\* C16: no call changes the combinations of a LoopSession that stays registered:
\* in every step, every loop id that has a session before and after the step
\* has the same combinations before and after it.
C16_CombinationsFrozen ==
    [][\A id \in (DOMAIN LOOP_SESSIONS) \cap (DOMAIN LOOP_SESSIONS') :
          LOOP_SESSIONS'[id].combinations = LOOP_SESSIONS[id].combinations]_vars

\* the source has been called again for an existing loop of two combinations (it
\* moved the loop to index 1) by a caller whose inputs may differ from the first
C16_Witness ==
    /\ call.node = "start" /\ call.branch = "reuse" /\ call.raised = ""
    /\ calls >= 2
    /\ call.id \in DOMAIN LOOP_SESSIONS
    /\ LOOP_SESSIONS[call.id].combinations = << <<"a">>, <<"b">> >>
    /\ LOOP_SESSIONS[call.id].current_index = 1

\* the ResultSession a sink call for ctx works on: the registered one, or the
\* one the call creates
SessionFor(cache, ctx) ==
    IF ctx.loop_id[2] \in DOMAIN cache THEN cache[ctx.loop_id[2]]
    ELSE NewResults(ctx.total_iterations[2])

\* C17: a sink call with a not-finished context whose integer current_index is out
\* of bounds (below 0, or at or above total_expected) changes no slot and not
\* received_count: the loop's ResultSession, if the call leaves one, is the one
\* the call started from.
C17_OutOfBoundsIgnored ==
    \A result \in BodyResults, ctx \in ContextTexts :
        (/\ ctx.form = "object"
         /\ ctx.loop_id[1] = "str" /\ ctx.loop_id[2] # ""
         /\ ctx.current_index[1] = "int"
         /\ ctx.is_finished = JBool(FALSE)) =>
            \E o \in {EndExecute(RESULTS_CACHE, LOOP_SESSIONS, result, ctx)},
               before \in {SessionFor(RESULTS_CACHE, ctx)} :
                (ctx.current_index[2] < 0 \/ ctx.current_index[2] >= before.total_expected) =>
                    (ctx.loop_id[2] \in DOMAIN o.cache => o.cache[ctx.loop_id[2]] = before)

\* C18: a source call for an existing LoopSession with an integer target_index at
\* or past the end of its combinations does not raise, emits no item, emits a
\* context with is_finished = true and current_index = target_index, and leaves
\* every LoopSession as it was.
C18_PastTheEndFinishes ==
    calls < MaxCalls =>
    \A input_lists \in DirectInputs, control \in ControlTexts :
        (/\ control.form = "object"
         /\ control.loop_id[1] = "str"
         /\ control.loop_id[2] \in DOMAIN LOOP_SESSIONS
         /\ control.target_index[1] = "int"
         /\ control.target_index[2] >= Len(LOOP_SESSIONS[control.loop_id[2]].combinations)) =>
            \E o \in {StartExecute(LOOP_SESSIONS, uuids, StartNodeId, input_lists, control)} :
                /\ o.raised = ""
                /\ o.item = NoneTuple
                /\ o.ctx.loop_id = control.loop_id
                /\ o.ctx.is_finished = JBool(TRUE)
                /\ o.ctx.current_index = control.target_index
                /\ o.sessions = LOOP_SESSIONS
                /\ o.uuids = uuids

\* the source has been called for an existing loop of two combinations that had
\* served index 1 with no item left to serve, and the session is still registered
C18_Witness ==
    /\ call.node = "start" /\ call.branch = "reuse" /\ call.raised = ""
    /\ call.finished
    /\ call.id \in DOMAIN LOOP_SESSIONS
    /\ Len(LOOP_SESSIONS[call.id].combinations) = 2
    /\ LOOP_SESSIONS[call.id].current_index = 1

---------------------------------------------------------------------------
(* Liveness of a loop driven by the serial host *)

\* the serial host under weak fairness: an evaluation step that stays possible is
\* eventually taken (the host re-evaluates the graph with every control record the
\* sink asks for, and the body always produces an output)
FairHostSpec == HostSpec /\ WF_vars(NextHost)

\* C19: under the fair serial host every loop of k combinations eventually is,
\* and then stays, complete after exactly k + 1 evaluations of the source, with
\* both registries empty and no continuation asked for beyond the k of the loop.
C19_EventuallyComplete ==
    <>[](/\ host.pc = "done" /\ host.branch = "complete"
         /\ Len(host.items) = HostK + 1
         /\ Len(host.requests) = HostK
         /\ LOOP_SESSIONS = EmptyDict
         /\ RESULTS_CACHE = EmptyDict)

\* a loop of two combinations was completed on the third evaluation and its loop
\* id has left both registries
C19_Witness ==
    /\ host.pc = "done" /\ host.branch = "complete"
    /\ HostK = 2 /\ Len(host.items) = 3
    /\ uuids = 1
    /\ UuidNames[1] \notin DOMAIN LOOP_SESSIONS
    /\ UuidNames[1] \notin DOMAIN RESULTS_CACHE

---------------------------------------------------------------------------
(* Two loops whose evaluations are interleaved *)

\* the inputs of the two interleaved loops
PairInputs == DirectInputs

InitPair ==
    /\ LOOP_SESSIONS = EmptyDict
    /\ RESULTS_CACHE = EmptyDict
    /\ uuids = 0
    /\ call = NoCall
    /\ calls = 0
    /\ \E i \in PairInputs : host = [IdleHost EXCEPT !.pc = "source", !.inputs = i]
    /\ \E i \in PairInputs : peer = [IdleHost EXCEPT !.pc = "source", !.inputs = i]

\* the same three steps for the second graph
PeerSource == EvalSource("peer", peer, peer') /\ UNCHANGED <<calls, host>>

PeerBody ==
    /\ EvalBody(peer, peer')
    /\ UNCHANGED <<LOOP_SESSIONS, RESULTS_CACHE, uuids, call, calls, host>>

PeerSink == EvalSink("peer", peer, peer') /\ UNCHANGED <<calls, host>>

NextPair == HostSource \/ HostBody \/ HostSink \/ PeerSource \/ PeerBody \/ PeerSink

\* two graphs, each with a loop of its own, whose node evaluations the host
\* interleaves in any order
PairSpec == InitPair /\ [][NextPair]_vars

\* the number of combinations of the loop of evaluation h
KOf(h) ==
    IF ProcessInputs(h.inputs) = <<>> THEN 0 ELSE SizeFrom(ProcessInputs(h.inputs), 1)

\* evaluation h, once done, has completed with one result per combination of its
\* own inputs: slot i holds the output its own body produced for index i, and the
\* item it was given for index i was the i-th combination of its own inputs
OwnResults(h) ==
    h.pc = "done" =>
        /\ h.branch = "complete"
        /\ Len(h.final) = KOf(h)
        /\ Len(h.outs) = KOf(h) + 1
        /\ \A e \in 1..KOf(h) :
              /\ h.outs[e].index = e - 1
              /\ h.final[e] = h.outs[e].out
              /\ h.items[e] = Item(LexTuple(ProcessInputs(h.inputs), e - 1))

\* the ids of both registries before and after a step
RegisteredIds ==
    (DOMAIN LOOP_SESSIONS) \cup (DOMAIN LOOP_SESSIONS')
    \cup (DOMAIN RESULTS_CACHE) \cup (DOMAIN RESULTS_CACHE')

\* a step leaves the sessions of every loop id other than the one its call was
\* made for as they are: none created, changed or deleted
OthersUntouched ==
    \A id \in RegisteredIds \ {call'.id} :
        /\ id \in DOMAIN LOOP_SESSIONS <=> id \in DOMAIN LOOP_SESSIONS'
        /\ id \in DOMAIN LOOP_SESSIONS => LOOP_SESSIONS'[id] = LOOP_SESSIONS[id]
        /\ id \in DOMAIN RESULTS_CACHE <=> id \in DOMAIN RESULTS_CACHE'
        /\ id \in DOMAIN RESULTS_CACHE => RESULTS_CACHE'[id] = RESULTS_CACHE[id]

\* the two loops have distinct loop ids (a graph without inputs has no loop: its
\* context carries the sentinel id)
DistinctLoops ==
    (host.ctx.form = "object" /\ peer.ctx.form = "object"
        /\ host.ctx.loop_id = peer.ctx.loop_id) => host.ctx.loop_id = JStr(NoLoop)

\* C20: isolation of two loops whose evaluations are interleaved in any order:
\* the loops have distinct ids, no call made for one loop id creates, changes or
\* deletes the LoopSession or ResultSession of another id, and each loop ends
\* complete with exactly its own body outputs in its own combination order.
C20_LoopsIsolated ==
    /\ [](DistinctLoops /\ OwnResults(host) /\ OwnResults(peer))
    /\ [][OthersUntouched]_vars

\* the second graph's loop ran inside the first one's: the first loop got the
\* first id and was completed last, and the two final results differ
C20_Witness ==
    /\ host.pc = "done" /\ peer.pc = "done"
    /\ call.by = "host" /\ call.id = UuidNames[1]
    /\ uuids = 2
    /\ host.final = <<"r1", "r2">>
    /\ peer.final = <<"r2", NoneVal>>
    /\ host.inputs # peer.inputs

=============================================================================
